---- MODULE Spec2Model ----
(***************************************************************************)
(* metric-reader: the threshold state machine (main.go), the control loop  *)
(* that feeds it (main.go, main), and the leadership fact that gates the   *)
(* plugin actions (leader_election.go).                                    *)
(*                                                                         *)
(* Time is an integer; the zero time.Time is 0 and every tick happens at a *)
(* time >= 1, strictly later than the previous tick.                       *)
(***************************************************************************)
EXTENDS Integers, Sequences, FiniteSets, TLC

VARIABLES
    cfg,            \* the resolved configuration (immutable after startup)
    pc,             \* position of main: "configure", "start", "loop" or "exited"
    state,          \* stateData of the threshold state machine
    now,            \* time.Now() of the latest tick (0 before the first tick)
    lastValue,      \* last real sample seen by the loop
    hasLastValue,   \* whether lastValue holds a real sample
    leaderActive,   \* the atomic leadership fact
    election,       \* "none", "running" (RunOrDie started) or "stopped"
    startedLeading, \* OnStartedLeading has been delivered
    softTotal,      \* history: number of soft Execute calls so far
    hardTotal,      \* history: number of hard Execute calls so far
    lastUncrossed,  \* history: time of the latest evaluated sample that does not
                    \* violate the soft trigger (0: none yet)
    env,            \* what main starts from: the Config that LoadConfig returned
                    \* and the plugin directory on disk
    PluginRegistry  \* the names registered in PluginRegistry

vars == <<cfg, pc, state, now, lastValue, hasLastValue, leaderActive, election,
          startedLeading, softTotal, hardTotal, lastUncrossed, env, PluginRegistry>>

-----------------------------------------------------------------------------
(* Bounds of the model *)

\* the clock stops at MaxTime
MaxTime == 5

\* the time between two ticks
Steps == {1, 2}

\* sample values: below, between and above the triggers
Values == 0..3

\* <<softDuration, hardDuration>>
DurationPairs == {<<0, 0>>, <<2, 0>>, <<0, 2>>}

\* <<softBackoffDelay, hardBackoffDelay>>
BackoffPairs == {<<0, 0>>, <<5, 0>>, <<0, 1>>, <<1, 1>>, <<1, 5>>}

SoftTriggers == {1}

HardTriggers == {2}

-----------------------------------------------------------------------------
(* Types of main.go *)

thresholdOperatorGreaterThan == "greater_than"

thresholdOperatorLessThan == "less_than"

missingValueBehaviorLastValue == "last_value"

missingValueBehaviorZero == "zero"

missingValueBehaviorAssumeBreached == "assume_breached"

stateNotBreached == "NotBreached"

stateSoftThresholdActive == "SoftThresholdActive"

stateHardThresholdActive == "HardThresholdActive"

\* a nil *threshold
NoThreshold == [present |-> FALSE, value |-> 0, plugin |-> FALSE]

\* threshold{value, plugin}; plugin is whether the plugin pointer is non-nil
Thresholds(triggers) ==
    {NoThreshold} \cup [present : {TRUE}, value : triggers, plugin : BOOLEAN]

AllConfigs ==
    [operator : {thresholdOperatorGreaterThan, thresholdOperatorLessThan},
     softThreshold : Thresholds(SoftTriggers),
     hardThreshold : Thresholds(HardTriggers),
     softDuration : {p[1] : p \in DurationPairs},
     softBackoffDelay : {p[1] : p \in BackoffPairs},
     hardDuration : {p[2] : p \in DurationPairs},
     hardBackoffDelay : {p[2] : p \in BackoffPairs},
     missingValueBehavior : {missingValueBehaviorLastValue, missingValueBehaviorZero,
                             missingValueBehaviorAssumeBreached},
     LeaderElectionEnabled : BOOLEAN]

\* the operator and degraded-input mode pairs that are explored
ModePairs ==
    {<<thresholdOperatorGreaterThan, missingValueBehaviorAssumeBreached>>,
     <<thresholdOperatorGreaterThan, missingValueBehaviorZero>>,
     <<thresholdOperatorLessThan, missingValueBehaviorLastValue>>}

\* the configurations explored: every tier shape with the election disabled, and
\* both tiers with their plugins under the lease protocol
Configs ==
    {c \in AllConfigs :
        /\ <<c.softDuration, c.hardDuration>> \in DurationPairs
        /\ <<c.softBackoffDelay, c.hardBackoffDelay>> \in BackoffPairs
        /\ <<c.operator, c.missingValueBehavior>> \in ModePairs
        /\ c.LeaderElectionEnabled =>
              /\ c.softThreshold.plugin /\ c.hardThreshold.plugin
              /\ c.missingValueBehavior = missingValueBehaviorAssumeBreached
              /\ c.hardDuration = 0
              /\ c.softBackoffDelay = c.hardBackoffDelay \/ c.hardBackoffDelay = 5}

\* main only builds thresholdCfg when at least one tier is configured
thresholdCfgSet(c) == c.softThreshold.present \/ c.hardThreshold.present

stateDataInit ==
    [currentState |-> stateNotBreached,
     softThresholdStartTime |-> 0,
     hardThresholdStartTime |-> 0,
     softBackoffUntil |-> 0,
     hardBackoffUntil |-> 0]

-----------------------------------------------------------------------------
(* main.go: the crossing test *)

\* isThresholdCrossed with the comparisons made inclusive
isThresholdCrossedInclusive(operator, value, threshold) ==
    CASE operator = thresholdOperatorGreaterThan -> value >= threshold
      [] operator = thresholdOperatorLessThan -> value =< threshold
      [] OTHER -> FALSE

isThresholdCrossed(operator, value, threshold) ==
    CASE operator = thresholdOperatorGreaterThan -> value > threshold
      [] operator = thresholdOperatorLessThan -> value < threshold
      [] OTHER -> FALSE

softCrossedOf(c, value) ==
    IF c.softThreshold.present
    THEN isThresholdCrossed(c.operator, value, c.softThreshold.value)
    ELSE FALSE

hardCrossedOf(c, value) ==
    IF c.hardThreshold.present
    THEN isThresholdCrossed(c.operator, value, c.hardThreshold.value)
    ELSE FALSE

-----------------------------------------------------------------------------
(* main.go: plugin dispatch.  r is the evaluation in progress:               *)
(* [st: stateData, calls: the tiers whose Execute was called, in order].     *)
(* lead.soft / lead.hard is what IsLeader() returns at the tier's call site, *)
(* ok.soft / ok.hard whether the tier's Execute returns nil.                 *)

\* mutant: Execute is called without asking IsLeader()
executeSoftPluginNoLeaderTest(r, c, t, lead, ok) ==
    IF c.softThreshold.plugin
    THEN [st |-> IF ok.soft /\ c.softBackoffDelay > 0
                 THEN [r.st EXCEPT !.softBackoffUntil = t + c.softBackoffDelay]
                 ELSE r.st,
          calls |-> Append(r.calls, "soft")]
    ELSE r

executeSoftPlugin(r, c, t, lead, ok) ==
    IF c.softThreshold.plugin /\ lead.soft
    THEN [st |-> IF ok.soft /\ c.softBackoffDelay > 0
                 THEN [r.st EXCEPT !.softBackoffUntil = t + c.softBackoffDelay]
                 ELSE r.st,
          calls |-> Append(r.calls, "soft")]
    ELSE r

\* mutant: the backoff is armed whatever Execute returns
executeHardPluginArmsOnError(r, c, t, lead, ok) ==
    IF c.hardThreshold.plugin /\ lead.hard
    THEN [st |-> IF c.hardBackoffDelay > 0
                 THEN [r.st EXCEPT !.hardBackoffUntil = t + c.hardBackoffDelay]
                 ELSE r.st,
          calls |-> Append(r.calls, "hard")]
    ELSE r

\* mutant: a failed Execute is tried once more at once
executeHardPluginRetries(r, c, t, lead, ok) ==
    IF c.hardThreshold.plugin /\ lead.hard
    THEN [st |-> IF ok.hard /\ c.hardBackoffDelay > 0
                 THEN [r.st EXCEPT !.hardBackoffUntil = t + c.hardBackoffDelay]
                 ELSE r.st,
          calls |-> IF ok.hard
                    THEN Append(r.calls, "hard")
                    ELSE Append(Append(r.calls, "hard"), "hard")]
    ELSE r

executeHardPlugin(r, c, t, lead, ok) ==
    IF c.hardThreshold.plugin /\ lead.hard
    THEN [st |-> IF ok.hard /\ c.hardBackoffDelay > 0
                 THEN [r.st EXCEPT !.hardBackoffUntil = t + c.hardBackoffDelay]
                 ELSE r.st,
          calls |-> Append(r.calls, "hard")]
    ELSE r

-----------------------------------------------------------------------------
(* main.go: the cooldown (backoff) tests *)

\* !softBackoffUntil.IsZero() && now.Before(softBackoffUntil)
softBackoffPending(st, t) == st.softBackoffUntil # 0 /\ t < st.softBackoffUntil

\* mutant: After where the code says Before
hardBackoffPendingAfter(st, t) == st.hardBackoffUntil # 0 /\ t > st.hardBackoffUntil

\* !hardBackoffUntil.IsZero() && now.Before(hardBackoffUntil)
hardBackoffPending(st, t) == st.hardBackoffUntil # 0 /\ t < st.hardBackoffUntil

\* mutant: the IsZero test of the re-execution is dropped
softBackoffExpiredNoZeroTest(st, t) == t > st.softBackoffUntil

\* !softBackoffUntil.IsZero() && now.After(softBackoffUntil)
softBackoffExpired(st, t) == st.softBackoffUntil # 0 /\ t > st.softBackoffUntil

\* mutant: the IsZero test of the hard re-execution is dropped
hardBackoffExpiredNoZeroTest(st, t) == t > st.hardBackoffUntil

\* !hardBackoffUntil.IsZero() && now.After(hardBackoffUntil)
hardBackoffExpired(st, t) == st.hardBackoffUntil # 0 /\ t > st.hardBackoffUntil

\* now.Sub(softThresholdStartTime) >= softDuration
softDurationElapsed(st, c, t) == t - st.softThresholdStartTime >= c.softDuration

\* now.Sub(hardThresholdStartTime) >= hardDuration
hardDurationElapsed(st, c, t) == t - st.hardThresholdStartTime >= c.hardDuration

-----------------------------------------------------------------------------
(* main.go: processThresholdStateMachine, one operator per case of the switch *)

NoCalls(st) == [st |-> st, calls |-> <<>>]

\* mutant: the transition is made inside the IsLeader() test
caseNotBreachedLeaderOnly(st, c, value, t, lead, ok) ==
    LET softCrossed == softCrossedOf(c, value) IN
    IF softCrossed /\ c.softThreshold.present
    THEN IF softBackoffPending(st, t)
         THEN NoCalls(st)
         ELSE IF st.softThresholdStartTime = 0
         THEN NoCalls([st EXCEPT !.softThresholdStartTime = t])
         ELSE IF softDurationElapsed(st, c, t) /\ lead.soft
         THEN executeSoftPlugin(
                  NoCalls([st EXCEPT !.currentState = stateSoftThresholdActive]),
                  c, t, lead, ok)
         ELSE NoCalls(st)
    ELSE IF ~softCrossed /\ st.softThresholdStartTime # 0
    THEN NoCalls([st EXCEPT !.softThresholdStartTime = 0])
    ELSE NoCalls(st)

\* mutant: a crossing of either threshold starts the soft tier
caseNotBreachedAnyTier(st, c, value, t, lead, ok) ==
    LET softCrossed == softCrossedOf(c, value) \/ hardCrossedOf(c, value) IN
    IF softCrossed
    THEN IF softBackoffPending(st, t)
         THEN NoCalls(st)
         ELSE IF st.softThresholdStartTime = 0
         THEN NoCalls([st EXCEPT !.softThresholdStartTime = t])
         ELSE IF softDurationElapsed(st, c, t)
         THEN executeSoftPlugin(
                  NoCalls([st EXCEPT !.currentState = stateSoftThresholdActive]),
                  c, t, lead, ok)
         ELSE NoCalls(st)
    ELSE IF ~softCrossed /\ st.softThresholdStartTime # 0
    THEN NoCalls([st EXCEPT !.softThresholdStartTime = 0])
    ELSE NoCalls(st)

\* mutant: the tick that starts the soft timer also tests the duration
caseNotBreachedFiresAtOnce(st, c, value, t, lead, ok) ==
    LET softCrossed == softCrossedOf(c, value)
        started == IF st.softThresholdStartTime = 0
                   THEN [st EXCEPT !.softThresholdStartTime = t]
                   ELSE st
    IN
    IF softCrossed /\ c.softThreshold.present
    THEN IF softBackoffPending(st, t)
         THEN NoCalls(st)
         ELSE IF softDurationElapsed(started, c, t)
         THEN executeSoftPlugin(
                  NoCalls([started EXCEPT !.currentState = stateSoftThresholdActive]),
                  c, t, lead, ok)
         ELSE NoCalls(started)
    ELSE IF ~softCrossed /\ st.softThresholdStartTime # 0
    THEN NoCalls([st EXCEPT !.softThresholdStartTime = 0])
    ELSE NoCalls(st)

caseNotBreached(st, c, value, t, lead, ok) ==
    LET softCrossed == softCrossedOf(c, value) IN
    IF softCrossed /\ c.softThreshold.present
    THEN IF softBackoffPending(st, t)
         THEN NoCalls(st)
         ELSE IF st.softThresholdStartTime = 0
         THEN NoCalls([st EXCEPT !.softThresholdStartTime = t])
         ELSE IF softDurationElapsed(st, c, t)
         THEN executeSoftPlugin(
                  NoCalls([st EXCEPT !.currentState = stateSoftThresholdActive]),
                  c, t, lead, ok)
         ELSE NoCalls(st)
    ELSE IF ~softCrossed /\ st.softThresholdStartTime # 0
    THEN NoCalls([st EXCEPT !.softThresholdStartTime = 0])
    ELSE NoCalls(st)

\* lines 236-305: the hard tier while in SoftThresholdActive; returned is TRUE
\* when the function returns from inside the block (hard backoff pending)
softActiveHardTier(st, c, value, t, lead, ok) ==
    LET hardCrossed == hardCrossedOf(c, value) IN
    IF hardCrossed /\ c.hardThreshold.present
    THEN IF hardBackoffPending(st, t)
         THEN [r |-> NoCalls(st), returned |-> TRUE]
         ELSE IF st.hardThresholdStartTime = 0
         THEN [r |-> NoCalls([st EXCEPT !.hardThresholdStartTime = t]),
               returned |-> FALSE]
         ELSE IF hardDurationElapsed(st, c, t)
         THEN [r |-> executeHardPlugin(
                         NoCalls([st EXCEPT !.currentState = stateHardThresholdActive]),
                         c, t, lead, ok),
               returned |-> FALSE]
         ELSE [r |-> NoCalls(st), returned |-> FALSE]
    ELSE IF ~hardCrossed /\ st.hardThresholdStartTime # 0
    THEN [r |-> NoCalls([st EXCEPT !.hardThresholdStartTime = 0]), returned |-> FALSE]
    ELSE [r |-> NoCalls(st), returned |-> FALSE]

\* lines 307-344: re-execution of the soft plugin after its backoff
\* mutant: a zero backoff timestamp counts as expired, as it does on the
\* NotBreached side
softActiveReexecuteZeroOrAfter(r, c, value, t, lead, ok) ==
    IF /\ softCrossedOf(c, value)
       /\ c.softThreshold.present
       /\ (r.st.softBackoffUntil = 0 \/ t > r.st.softBackoffUntil)
    THEN executeSoftPlugin(r, c, t, lead, ok)
    ELSE r

softActiveReexecute(r, c, value, t, lead, ok) ==
    IF softCrossedOf(c, value) /\ c.softThreshold.present /\ softBackoffExpired(r.st, t)
    THEN executeSoftPlugin(r, c, t, lead, ok)
    ELSE r

\* mutant: the return on a cleared soft trigger is missing
caseSoftThresholdActiveNoSoftTest(st, c, value, t, lead, ok) ==
    LET h == softActiveHardTier(st, c, value, t, lead, ok) IN
    IF h.returned
    THEN h.r
    ELSE softActiveReexecute(h.r, c, value, t, lead, ok)

caseSoftThresholdActive(st, c, value, t, lead, ok) ==
    IF ~softCrossedOf(c, value)
    THEN NoCalls([st EXCEPT !.currentState = stateNotBreached,
                            !.softThresholdStartTime = 0])
    ELSE LET h == softActiveHardTier(st, c, value, t, lead, ok) IN
         IF h.returned
         THEN h.r
         ELSE softActiveReexecute(h.r, c, value, t, lead, ok)

\* mutant: a cleared soft trigger alone steps back to SoftThresholdActive
caseHardThresholdActiveToSoft(st, c, value, t, lead, ok) ==
    LET softCrossed == softCrossedOf(c, value)
        hardCrossed == hardCrossedOf(c, value)
        cleared == [st EXCEPT !.currentState = stateNotBreached,
                              !.softThresholdStartTime = 0,
                              !.hardThresholdStartTime = 0]
    IN
    IF ~hardCrossed /\ ~softCrossed
    THEN NoCalls(cleared)
    ELSE IF ~softCrossed
    THEN NoCalls([st EXCEPT !.currentState = stateSoftThresholdActive,
                            !.hardThresholdStartTime = 0])
    ELSE IF hardCrossed /\ c.hardThreshold.present /\ hardBackoffExpired(st, t)
    THEN executeHardPlugin(NoCalls(st), c, t, lead, ok)
    ELSE NoCalls(st)

\* mutant: a cleared hard trigger alone returns to NotBreached
caseHardThresholdActiveOnHardCleared(st, c, value, t, lead, ok) ==
    LET softCrossed == softCrossedOf(c, value)
        hardCrossed == hardCrossedOf(c, value)
        cleared == [st EXCEPT !.currentState = stateNotBreached,
                              !.softThresholdStartTime = 0,
                              !.hardThresholdStartTime = 0]
    IN
    IF ~hardCrossed \/ ~softCrossed
    THEN NoCalls(cleared)
    ELSE IF c.hardThreshold.present /\ hardBackoffExpired(st, t)
    THEN executeHardPlugin(NoCalls(st), c, t, lead, ok)
    ELSE NoCalls(st)

caseHardThresholdActive(st, c, value, t, lead, ok) ==
    LET softCrossed == softCrossedOf(c, value)
        hardCrossed == hardCrossedOf(c, value)
        cleared == [st EXCEPT !.currentState = stateNotBreached,
                              !.softThresholdStartTime = 0,
                              !.hardThresholdStartTime = 0]
    IN
    IF ~hardCrossed /\ ~softCrossed
    THEN NoCalls(cleared)
    ELSE IF ~softCrossed
    THEN NoCalls(cleared)
    ELSE IF hardCrossed /\ c.hardThreshold.present /\ hardBackoffExpired(st, t)
    THEN executeHardPlugin(NoCalls(st), c, t, lead, ok)
    ELSE NoCalls(st)

processThresholdStateMachine(st, c, value, t, lead, ok) ==
    CASE st.currentState = stateNotBreached ->
             caseNotBreached(st, c, value, t, lead, ok)
      [] st.currentState = stateSoftThresholdActive ->
             caseSoftThresholdActive(st, c, value, t, lead, ok)
      [] st.currentState = stateHardThresholdActive ->
             caseHardThresholdActive(st, c, value, t, lead, ok)
      [] OTHER -> NoCalls(st)

-----------------------------------------------------------------------------
(* main.go, main: the assume_breached handling of a missing sample *)

\* mutant: the nil test of the soft threshold is missing
assumeSoftBreachedNoNilTest(r, c, t, lead, ok) ==
    IF r.st.currentState = stateNotBreached
    THEN IF r.st.softBackoffUntil = 0 \/ t > r.st.softBackoffUntil
         THEN executeSoftPlugin(
                  [r EXCEPT !.st.softThresholdStartTime = t,
                            !.st.currentState = stateSoftThresholdActive],
                  c, t, lead, ok)
         ELSE r
    ELSE r

assumeSoftBreached(r, c, t, lead, ok) ==
    IF r.st.currentState = stateNotBreached /\ c.softThreshold.present
    THEN IF r.st.softBackoffUntil = 0 \/ t > r.st.softBackoffUntil
         THEN executeSoftPlugin(
                  [r EXCEPT !.st.softThresholdStartTime = t,
                            !.st.currentState = stateSoftThresholdActive],
                  c, t, lead, ok)
         ELSE r
    ELSE r

\* mutant: the nil test of the hard threshold is missing
assumeHardBreachedNoNilTest(r, c, t, lead, ok) ==
    IF r.st.currentState = stateSoftThresholdActive
    THEN IF r.st.hardBackoffUntil = 0 \/ t > r.st.hardBackoffUntil
         THEN executeHardPlugin(
                  [r EXCEPT !.st.hardThresholdStartTime = t,
                            !.st.currentState = stateHardThresholdActive],
                  c, t, lead, ok)
         ELSE r
    ELSE r

assumeHardBreached(r, c, t, lead, ok) ==
    IF r.st.currentState = stateSoftThresholdActive /\ c.hardThreshold.present
    THEN IF r.st.hardBackoffUntil = 0 \/ t > r.st.hardBackoffUntil
         THEN executeHardPlugin(
                  [r EXCEPT !.st.hardThresholdStartTime = t,
                            !.st.currentState = stateHardThresholdActive],
                  c, t, lead, ok)
         ELSE r
    ELSE r

assumeBreached(st, c, t, lead, ok) ==
    IF thresholdCfgSet(c)
    THEN assumeHardBreached(assumeSoftBreached(NoCalls(st), c, t, lead, ok),
                            c, t, lead, ok)
    ELSE NoCalls(st)

-----------------------------------------------------------------------------
(* main.go, main: one iteration of the polling loop *)

\* what v1api.Query hands to the loop: an error, a result that is no vector,
\* an empty vector, or a vector whose first element carries the sample
QueryResults ==
    [kind : {"error", "other_type", "empty"}, value : {0}]
        \cup [kind : {"sample"}, value : Values]

\* mutant: last_value uses lastValue without testing hasLastValue
valueOfNoLastValueTest(c, lv, hlv, res) ==
    CASE res.kind = "sample" -> [found |-> TRUE, value |-> res.value]
      [] res.kind = "empty" /\ c.missingValueBehavior = missingValueBehaviorLastValue ->
             [found |-> TRUE, value |-> lv]
      [] res.kind = "empty" /\ c.missingValueBehavior = missingValueBehaviorZero ->
             [found |-> TRUE, value |-> 0]
      [] OTHER -> [found |-> FALSE, value |-> 0]

\* the value the loop evaluates, if any: [found, value]
valueOf(c, lv, hlv, res) ==
    CASE res.kind = "sample" -> [found |-> TRUE, value |-> res.value]
      [] res.kind = "empty" /\ c.missingValueBehavior = missingValueBehaviorLastValue ->
             [found |-> hlv, value |-> IF hlv THEN lv ELSE 0]
      [] res.kind = "empty" /\ c.missingValueBehavior = missingValueBehaviorZero ->
             [found |-> TRUE, value |-> 0]
      [] OTHER -> [found |-> FALSE, value |-> 0]

\* mutant: a failed or non-vector query is handled like an empty vector
loopBodySkipsNothing(st, c, lv, hlv, res, t, lead, ok) ==
    LET e == IF res.kind = "sample" THEN res ELSE [kind |-> "empty", value |-> 0]
        v == valueOf(c, lv, hlv, e)
        assumed == e.kind = "empty"
                     /\ c.missingValueBehavior = missingValueBehaviorAssumeBreached
        evaluated == v.found /\ thresholdCfgSet(c)
        r == IF assumed
             THEN assumeBreached(st, c, t, lead, ok)
             ELSE IF evaluated
             THEN processThresholdStateMachine(st, c, v.value, t, lead, ok)
             ELSE NoCalls(st)
    IN [st |-> r.st, calls |-> r.calls, evaluated |-> evaluated, value |-> v.value,
        assumed |-> assumed,
        lastValue |-> IF res.kind = "sample" THEN res.value ELSE lv,
        hasLastValue |-> hlv \/ res.kind = "sample"]

\* the body of "for range ticker.C": the new stateData, the Execute calls made,
\* whether processThresholdStateMachine was called and with which value
loopBody(st, c, lv, hlv, res, t, lead, ok) ==
    LET v == valueOf(c, lv, hlv, res)
        assumed == res.kind = "empty"
                     /\ c.missingValueBehavior = missingValueBehaviorAssumeBreached
        evaluated == v.found /\ thresholdCfgSet(c)
        r == IF assumed
             THEN assumeBreached(st, c, t, lead, ok)
             ELSE IF evaluated
             THEN processThresholdStateMachine(st, c, v.value, t, lead, ok)
             ELSE NoCalls(st)
    IN [st |-> r.st, calls |-> r.calls, evaluated |-> evaluated, value |-> v.value,
        assumed |-> assumed,
        lastValue |-> IF res.kind = "sample" THEN res.value ELSE lv,
        hasLastValue |-> hlv \/ res.kind = "sample"]

\* IsLeader(): leaderActive.Load()
IsLeader == leaderActive

\* the times the next tick can happen at
NextTimes == {now + d : d \in Steps} \cap (1..MaxTime)

\* what the plugins' Execute return when called: nil (TRUE) or an error
Outcomes == [soft : BOOLEAN, hard : BOOLEAN]

\* the tick at time t on query result res, from the current state
StepOf(t, res, ok) ==
    loopBody(state, cfg, lastValue, hasLastValue, res, t,
             [soft |-> IsLeader, hard |-> IsLeader], ok)

Called(out, tier) == \E i \in DOMAIN out.calls : out.calls[i] = tier

\* the outcome of an Execute that is not called is not drawn
Drawn(out, ok) ==
    /\ ~Called(out, "soft") => ok.soft
    /\ ~Called(out, "hard") => ok.hard

Count(calls, tier) == Cardinality({i \in DOMAIN calls : calls[i] = tier})

\* a tick of the loop whose query result is one of results and whose Execute
\* outcomes are among outcomes
TickOn(results, outcomes) ==
    /\ pc = "loop"
    /\ \E t \in NextTimes, res \in results, ok \in outcomes :
         LET out == StepOf(t, res, ok)
         IN /\ Drawn(out, ok)
            /\ now' = t
            /\ state' = out.st
            /\ lastValue' = out.lastValue
            /\ hasLastValue' = out.hasLastValue
            /\ softTotal' = softTotal + Count(out.calls, "soft")
            /\ hardTotal' = hardTotal + Count(out.calls, "hard")
            /\ lastUncrossed' = IF out.evaluated /\ ~softCrossedOf(cfg, out.value)
                                THEN t ELSE lastUncrossed
    /\ UNCHANGED <<cfg, pc, leaderActive, election, startedLeading, env,
                   PluginRegistry>>

Tick == TickOn(QueryResults, Outcomes)

-----------------------------------------------------------------------------
(* leader_election.go *)

\* mutant: the path of a failed kubernetes.NewForConfig returns without the store
leaderElectionStartNoStore(c, leader, inClusterOK, namespaceOK, clientOK) ==
    IF ~c.LeaderElectionEnabled
    THEN [leaderActive |-> TRUE, election |-> "none"]
    ELSE IF ~inClusterOK
    THEN [leaderActive |-> TRUE, election |-> "none"]
    ELSE IF ~namespaceOK
    THEN [leaderActive |-> TRUE, election |-> "none"]
    ELSE IF ~clientOK
    THEN [leaderActive |-> leader, election |-> "none"]
    ELSE [leaderActive |-> leader, election |-> "running"]

\* startLeaderElection: the election is started only when it is enabled and the
\* in-cluster configuration, the namespace and the client are all obtained;
\* every other path stores true and returns
leaderElectionStart(c, leader, inClusterOK, namespaceOK, clientOK) ==
    IF ~c.LeaderElectionEnabled
    THEN [leaderActive |-> TRUE, election |-> "none"]
    ELSE IF ~inClusterOK
    THEN [leaderActive |-> TRUE, election |-> "none"]
    ELSE IF ~namespaceOK
    THEN [leaderActive |-> TRUE, election |-> "none"]
    ELSE IF ~clientOK
    THEN [leaderActive |-> TRUE, election |-> "none"]
    ELSE [leaderActive |-> leader, election |-> "running"]

\* main: startLeaderElection(ctx, config), then on to the loop
startLeaderElection ==
    /\ pc = "start"
    /\ \E inClusterOK \in BOOLEAN, namespaceOK \in BOOLEAN, clientOK \in BOOLEAN :
         LET e == leaderElectionStart(cfg, leaderActive, inClusterOK, namespaceOK,
                                      clientOK)
         IN leaderActive' = e.leaderActive /\ election' = e.election
    /\ pc' = "loop"
    /\ UNCHANGED <<cfg, state, now, lastValue, hasLastValue, startedLeading,
                   softTotal, hardTotal, lastUncrossed, env,
                   PluginRegistry>>

\* mutant: OnStartedLeading also resets the state machine
OnStartedLeadingResetsState ==
    /\ pc = "loop"
    /\ election = "running"
    /\ ~startedLeading
    /\ leaderActive' = TRUE
    /\ startedLeading' = TRUE
    /\ state' = stateDataInit
    /\ UNCHANGED <<cfg, pc, now, lastValue, hasLastValue, election,
                   softTotal, hardTotal, lastUncrossed, env,
                   PluginRegistry>>

\* the callbacks are delivered by the election library while the loop runs;
\* OnStartedLeading is delivered at most once
OnStartedLeading ==
    /\ pc = "loop"
    /\ election = "running"
    /\ ~startedLeading
    /\ leaderActive' = TRUE
    /\ startedLeading' = TRUE
    /\ UNCHANGED <<cfg, pc, state, now, lastValue, hasLastValue, election,
                   softTotal, hardTotal, lastUncrossed, env,
                   PluginRegistry>>

\* mutant: OnNewLeader stores true when the observed leader is this replica
OnNewLeaderStoresTrue ==
    /\ pc = "loop"
    /\ election = "running"
    /\ \E isSelf \in BOOLEAN : leaderActive' = isSelf
    /\ UNCHANGED <<cfg, pc, state, now, lastValue, hasLastValue, election,
                   startedLeading, softTotal, hardTotal, lastUncrossed, env,
                   PluginRegistry>>

\* OnNewLeader(id): the fact is cleared when the observed leader is another replica
OnNewLeader ==
    /\ pc = "loop"
    /\ election = "running"
    /\ \E isSelf \in BOOLEAN :
         leaderActive' = IF ~isSelf THEN FALSE ELSE leaderActive
    /\ UNCHANGED <<cfg, pc, state, now, lastValue, hasLastValue, election,
                   startedLeading, softTotal, hardTotal, lastUncrossed, env,
                   PluginRegistry>>

\* mutant: the callback returns instead of exiting
stoppedLeadingNoExit == [leaderActive |-> FALSE, pc |-> "loop"]

\* what OnStoppedLeading leaves behind: leaderActive.Store(false), os.Exit(1)
stoppedLeading == [leaderActive |-> FALSE, pc |-> "exited"]

\* OnStoppedLeading ends the election and the process
OnStoppedLeading ==
    /\ pc = "loop"
    /\ election = "running"
    /\ leaderActive' = stoppedLeading.leaderActive
    /\ pc' = stoppedLeading.pc
    /\ election' = "stopped"
    /\ UNCHANGED <<cfg, state, now, lastValue, hasLastValue, startedLeading,
                   softTotal, hardTotal, lastUncrossed, env,
                   PluginRegistry>>

-----------------------------------------------------------------------------
(* plugin.go: the plugin registry and LoadRequiredPlugins *)

\* the names that plugins report through Name()
PluginNames == {"file_action", "log_action"}

\* an entry of the plugin directory that yields no plugin
NoPlugin(kind) == [kind |-> kind, name |-> "", valid |-> FALSE]

\* what os.ReadDir lists: a directory, a file that is no .so, a .so that
\* LoadPlugin fails on, or a .so holding a plugin with its Name() and with
\* whether its ValidateConfig() returns nil
DirEntries ==
    {NoPlugin("dir"), NoPlugin("file"), NoPlugin("broken")}
        \cup [kind : {"plugin"}, name : PluginNames, valid : BOOLEAN]

\* the largest number of entries of the plugin directory
MaxEntries == 2

\* a directory that os.ReadDir fails on, or the entries in the order of
\* os.ReadDir
Directories ==
    {[readable |-> FALSE, entries |-> <<>>]}
        \cup [readable : {TRUE},
              entries : UNION {[1..n -> DirEntries] : n \in 0..MaxEntries}]

\* mutant: every plugin that loads is registered, as LoadPluginsFromDirectory
\* does
loadEntryRegistersAll(acc, entry, requiredPlugins) ==
    IF entry.kind # "plugin"
    THEN acc
    ELSE IF entry.name \in requiredPlugins /\ ~entry.valid
    THEN [acc EXCEPT !.returned = TRUE]
    ELSE [acc EXCEPT !.registry = @ \cup {entry.name},
                     !.loadedPlugins = @ \cup {entry.name}]

\* the body of the loop over the entries; returned is TRUE when the function
\* returns the validation error from inside the loop
loadEntry(acc, entry, requiredPlugins) ==
    IF entry.kind \in {"dir", "file"}
    THEN acc
    ELSE IF entry.kind = "broken"
    THEN acc
    ELSE IF entry.name \in requiredPlugins
    THEN IF ~entry.valid
         THEN [acc EXCEPT !.returned = TRUE]
         ELSE [acc EXCEPT !.registry = @ \cup {entry.name},
                          !.loadedPlugins = @ \cup {entry.name}]
    ELSE acc

RECURSIVE loadEntries(_, _, _, _)
loadEntries(acc, entries, i, requiredPlugins) ==
    IF i > Len(entries) \/ acc.returned
    THEN acc
    ELSE loadEntries(loadEntry(acc, entries[i], requiredPlugins), entries, i + 1,
                     requiredPlugins)

\* LoadRequiredPlugins(dir, requiredPlugins) on the registry: whether it
\* returns an error, and the registry it leaves
LoadRequiredPlugins(dir, requiredPlugins, registry) ==
    IF ~dir.readable
    THEN [err |-> TRUE, registry |-> registry]
    ELSE LET acc == loadEntries([returned |-> FALSE, registry |-> registry,
                                 loadedPlugins |-> {}],
                                dir.entries, 1, requiredPlugins)
         IN IF acc.returned
            THEN [err |-> TRUE, registry |-> acc.registry]
            ELSE IF \E pluginName \in requiredPlugins :
                        pluginName \notin acc.loadedPlugins
            THEN [err |-> TRUE, registry |-> acc.registry]
            ELSE [err |-> FALSE, registry |-> acc.registry]

-----------------------------------------------------------------------------
(* main.go, main: from LoadConfig to the polling loop *)

\* the strings a thresholdOperator can hold: the two operators, the empty
\* string and another string
OperatorStrings ==
    {thresholdOperatorGreaterThan, thresholdOperatorLessThan, "", "equal"}

\* config.Soft / config.Hard: nil, or a tier with the name of its plugin (""
\* is no plugin)
NoTier == [present |-> FALSE, Plugin |-> ""]

Tiers == {NoTier} \cup [present : {TRUE}, Plugin : {""} \cup PluginNames]

\* the fields of Config that main reads before the loop
Configurations ==
    [LogLevel : {"info", "loud"},
     MetricName : {"", "up"},
     ThresholdOperator : OperatorStrings,
     Soft : Tiers,
     Hard : Tiers,
     MissingValueBehavior : {missingValueBehaviorZero, "never"},
     PluginDir : {"", "/plugins"},
     PrometheusEndpoint : {"http://prometheus:9090", "://"}]

Environments == [config : Configurations, dir : Directories]

\* parseThresholdOperator returns an error
parseThresholdOperatorFails(operatorStr) ==
    operatorStr \notin {"greater_than", "less_than"}

\* parseMissingValueBehavior returns an error
parseMissingValueBehaviorFails(behaviorStr) ==
    behaviorStr \notin {missingValueBehaviorLastValue, missingValueBehaviorZero,
                        missingValueBehaviorAssumeBreached}

\* the switch on config.LogLevel reaches its default
logLevelFails(level) == level \notin {"debug", "info", "warn", "error", ""}

\* api.NewClient returns an error on an address that is no URL
newClientFails(address) == address = "://"

\* the requiredPlugins map of main
requiredPluginsOf(config) ==
    (IF config.Soft.present /\ config.Soft.Plugin # ""
     THEN {config.Soft.Plugin} ELSE {})
        \cup
    (IF config.Hard.present /\ config.Hard.Plugin # ""
     THEN {config.Hard.Plugin} ELSE {})

\* whether main builds thresholdCfg
thresholdCfgBuilt(config) ==
    config.ThresholdOperator # "" /\ (config.Soft.present \/ config.Hard.present)

\* thresholdCfg nil
nilThresholdCfg ==
    [operator |-> "",
     softThreshold |-> NoThreshold,
     hardThreshold |-> NoThreshold,
     softDuration |-> 0,
     softBackoffDelay |-> 0,
     hardDuration |-> 0,
     hardBackoffDelay |-> 0,
     missingValueBehavior |-> "",
     LeaderElectionEnabled |-> FALSE]

\* the configuration the loop runs on: thresholdCfg with the plugins assigned
\* by validateThresholdPlugin, and the degraded-input mode
thresholdCfgOf(config) ==
    [nilThresholdCfg EXCEPT
        !.operator = IF thresholdCfgBuilt(config)
                     THEN config.ThresholdOperator ELSE "",
        !.softThreshold =
            IF thresholdCfgBuilt(config) /\ config.Soft.present
            THEN [present |-> TRUE, value |-> CHOOSE v \in SoftTriggers : TRUE,
                  plugin |-> config.Soft.Plugin # ""]
            ELSE NoThreshold,
        !.hardThreshold =
            IF thresholdCfgBuilt(config) /\ config.Hard.present
            THEN [present |-> TRUE, value |-> CHOOSE v \in HardTriggers : TRUE,
                  plugin |-> config.Hard.Plugin # ""]
            ELSE NoThreshold,
        !.missingValueBehavior = config.MissingValueBehavior]

\* validateThresholdPlugin calls log.Fatal: a plugin is named and is not in the
\* registry (the tier of a named plugin is never nil where main calls it)
validateThresholdPluginFails(tier, registry) ==
    tier.Plugin # "" /\ tier.Plugin \notin registry

\* the validation of the tiers' plugins calls log.Fatal
validatePlugins(config, registry) ==
    /\ thresholdCfgBuilt(config)
    /\ \/ config.Soft.present /\ validateThresholdPluginFails(config.Soft, registry)
       \/ config.Hard.present /\ validateThresholdPluginFails(config.Hard, registry)

\* main from the log level to the initialisation of the state machine: the
\* setting log.Fatal is called on ("" when the loop is reached), the registry
\* and the configuration of the loop
startup(e, registry) ==
    LET config == e.config
        requiredPlugins == requiredPluginsOf(config)
        loading == config.PluginDir # "" /\ requiredPlugins # {}
        load == IF loading
                THEN LoadRequiredPlugins(e.dir, requiredPlugins, registry)
                ELSE [err |-> FALSE, registry |-> registry]
        fatal(setting, reg) ==
            [fatal |-> setting, registry |-> reg, cfg |-> nilThresholdCfg]
    IN
    IF logLevelFails(config.LogLevel)
    THEN fatal("LOG_LEVEL", registry)
    ELSE IF config.MetricName = ""
    THEN fatal("METRIC_NAME", registry)
    ELSE IF /\ thresholdCfgBuilt(config)
            /\ parseThresholdOperatorFails(config.ThresholdOperator)
    THEN fatal("THRESHOLD_OPERATOR", registry)
    ELSE IF parseMissingValueBehaviorFails(config.MissingValueBehavior)
    THEN fatal("MISSING_VALUE_BEHAVIOR", registry)
    ELSE IF load.err
    THEN fatal("PLUGIN_DIR", load.registry)
    ELSE IF validatePlugins(config, load.registry)
    THEN fatal("THRESHOLD_PLUGIN", load.registry)
    ELSE IF newClientFails(config.PrometheusEndpoint)
    THEN fatal("PROMETHEUS_ENDPOINT", load.registry)
    ELSE [fatal |-> "", registry |-> load.registry, cfg |-> thresholdCfgOf(config)]

\* a Config and a plugin directory that main resolves to the configuration c
envOf(c) ==
    [config |->
        [LogLevel |-> "info",
         MetricName |-> "up",
         ThresholdOperator |-> c.operator,
         Soft |-> IF c.softThreshold.present
                  THEN [present |-> TRUE,
                        Plugin |-> IF c.softThreshold.plugin
                                   THEN "file_action" ELSE ""]
                  ELSE NoTier,
         Hard |-> IF c.hardThreshold.present
                  THEN [present |-> TRUE,
                        Plugin |-> IF c.hardThreshold.plugin
                                   THEN "log_action" ELSE ""]
                  ELSE NoTier,
         MissingValueBehavior |-> c.missingValueBehavior,
         PluginDir |-> "/plugins",
         PrometheusEndpoint |-> "http://prometheus:9090"],
     dir |->
        [readable |-> TRUE,
         entries |-> <<[kind |-> "plugin", name |-> "file_action", valid |-> TRUE],
                       [kind |-> "plugin", name |-> "log_action", valid |-> TRUE]>>]]

\* main after LoadConfig and startLeaderElection with the election disabled,
\* before anything is validated
InitStartup ==
    /\ env \in Environments
    /\ PluginRegistry = {}
    /\ cfg = nilThresholdCfg
    /\ pc = "configure"
    /\ state = stateDataInit
    /\ now = 0
    /\ lastValue = 0
    /\ hasLastValue = FALSE
    /\ leaderActive = TRUE
    /\ election = "none"
    /\ startedLeading = FALSE
    /\ softTotal = 0
    /\ hardTotal = 0
    /\ lastUncrossed = 0

\* main up to the loop: log.Fatal exits the process, otherwise the loop waits
\* for its first tick
Startup ==
    /\ pc = "configure"
    /\ LET r == startup(env, PluginRegistry)
       IN /\ pc' = IF r.fatal # "" THEN "exited" ELSE "loop"
          /\ cfg' = r.cfg
          /\ PluginRegistry' = r.registry
    /\ UNCHANGED <<state, now, lastValue, hasLastValue, leaderActive, election,
                   startedLeading, softTotal, hardTotal, lastUncrossed, env>>

NextStartup == Startup

SpecStartup == InitStartup /\ [][NextStartup]_vars

\* LoadRequiredPlugins called on its own, as plugin_test.go does: the required
\* names are those of the tiers, the other settings are fixed
InitLoadPlugins ==
    /\ InitStartup
    /\ env.config.LogLevel = "info"
    /\ env.config.MetricName = "up"
    /\ env.config.ThresholdOperator = thresholdOperatorGreaterThan
    /\ env.config.MissingValueBehavior = missingValueBehaviorZero
    /\ env.config.PluginDir = "/plugins"
    /\ env.config.PrometheusEndpoint = "http://prometheus:9090"

LoadPlugins ==
    /\ pc = "configure"
    /\ LET r == LoadRequiredPlugins(env.dir, requiredPluginsOf(env.config),
                                    PluginRegistry)
       IN /\ pc' = IF r.err THEN "load_error" ELSE "load_nil"
          /\ PluginRegistry' = r.registry
    /\ UNCHANGED <<cfg, state, now, lastValue, hasLastValue, leaderActive,
                   election, startedLeading, softTotal, hardTotal, lastUncrossed,
                   env>>

NextLoadPlugins == LoadPlugins

SpecLoadPlugins == InitLoadPlugins /\ [][NextLoadPlugins]_vars

-----------------------------------------------------------------------------

Init ==
    /\ cfg \in Configs
    /\ pc = "start"
    /\ state = stateDataInit
    /\ now = 0
    /\ lastValue = 0
    /\ hasLastValue = FALSE
    /\ leaderActive = FALSE
    /\ election = "none"
    /\ startedLeading = FALSE
    /\ softTotal = 0
    /\ hardTotal = 0
    /\ lastUncrossed = 0
    /\ env = envOf(cfg)
    /\ PluginRegistry = requiredPluginsOf(env.config)

Next ==
    \/ startLeaderElection
    \/ Tick
    \/ OnStartedLeading
    \/ OnNewLeader
    \/ OnStoppedLeading

Spec == Init /\ [][Next]_vars

-----------------------------------------------------------------------------
(* the scenario of a sustained soft violation on a leading replica *)

\* the configurations of the scenario: greater_than, a soft tier with a plugin
\* and no backoff delay
InitSustained ==
    /\ Init
    /\ cfg.operator = thresholdOperatorGreaterThan
    /\ cfg.softThreshold.present
    /\ cfg.softThreshold.plugin
    /\ cfg.softBackoffDelay = 0

\* every query returns a sample above the soft threshold
SustainedResults ==
    {res \in QueryResults : res.kind = "sample" /\ softCrossedOf(cfg, res.value)}

\* the soft plugin's Execute returns nil
SucceedingOutcomes == {ok \in Outcomes : ok.soft}

SustainedTick == IsLeader /\ TickOn(SustainedResults, SucceedingOutcomes)

NextSustained ==
    \/ startLeaderElection
    \/ OnStartedLeading
    \/ SustainedTick

SpecSustained == InitSustained /\ [][NextSustained]_vars

-----------------------------------------------------------------------------
(* properties *)

\* C1: under a sustained violation of the soft threshold (greater_than, no
\* backoff delay, leader, Execute succeeding) the machine stays in NotBreached
\* with no soft Execute until the first tick after the one that started the
\* soft timer at which softDuration has elapsed; from that tick on the state
\* is not NotBreached any more and the soft plugin has been executed exactly
\* once, however many ticks follow.
SustainedFiresOnce ==
    pc = "loop" =>
        /\ state.currentState = stateNotBreached =>
              /\ softTotal = 0
              /\ \/ state.softThresholdStartTime = 0
                 \/ state.softThresholdStartTime = now
                 \/ now - state.softThresholdStartTime < cfg.softDuration
        /\ state.currentState # stateNotBreached =>
              /\ softTotal = 1
              /\ state.softThresholdStartTime # 0
              /\ now > state.softThresholdStartTime
              /\ now - state.softThresholdStartTime >= cfg.softDuration

\* two ticks and more after the transition of a softDuration of 2, one Execute
SustainedFiresOnceWitness ==
    /\ state.currentState # stateNotBreached
    /\ cfg.softDuration = 2
    /\ now - state.softThresholdStartTime >= cfg.softDuration + 2
    /\ softTotal = 1

\* C2: a tick of processThresholdStateMachine that enters HardThresholdActive
\* or executes the hard plugin has a value crossing both thresholds and starts
\* in SoftThresholdActive or HardThresholdActive; a value crossing the hard
\* threshold but not the soft one executes no plugin in any state.
NestingInvariant ==
    pc = "loop" =>
        \A t \in NextTimes, res \in QueryResults, ok \in Outcomes :
            LET out == StepOf(t, res, ok)
                soft == softCrossedOf(cfg, out.value)
                hard == hardCrossedOf(cfg, out.value)
                entersHard ==
                    /\ out.st.currentState = stateHardThresholdActive
                    /\ state.currentState # stateHardThresholdActive
            IN out.evaluated =>
                 /\ entersHard \/ Called(out, "hard") =>
                       /\ soft /\ hard
                       /\ state.currentState \in {stateSoftThresholdActive,
                                                  stateHardThresholdActive}
                 /\ hard /\ ~soft => out.calls = <<>>

\* in SoftThresholdActive under less_than: one value enters HardThresholdActive
\* with a hard Execute, another crosses the hard threshold alone
NestingWitness ==
    /\ pc = "loop"
    /\ IsLeader
    /\ state.currentState = stateSoftThresholdActive
    /\ \E t \in NextTimes, res \in QueryResults, ok \in Outcomes :
         LET out == StepOf(t, res, ok)
         IN /\ out.evaluated
            /\ out.st.currentState = stateHardThresholdActive
            /\ Called(out, "hard")
    /\ \E t \in NextTimes, res \in QueryResults, ok \in Outcomes :
         LET out == StepOf(t, res, ok)
         IN /\ out.evaluated
            /\ hardCrossedOf(cfg, out.value)
            /\ ~softCrossedOf(cfg, out.value)
            /\ out.st.currentState = stateNotBreached

\* C3: whatever the state and the query result, a tick (ordinary or
\* assume_breached) executes a tier's plugin at most once, and never at a time
\* strictly before that tier's backoff timestamp; a backoff timestamp is set
\* only by an Execute of that tier, to at most now plus the tier's delay.
CooldownSuppression ==
    pc = "loop" =>
        /\ state.softBackoffUntil # 0 =>
              /\ softTotal >= 1
              /\ cfg.softBackoffDelay > 0
              /\ state.softBackoffUntil <= now + cfg.softBackoffDelay
        /\ state.hardBackoffUntil # 0 =>
              /\ hardTotal >= 1
              /\ cfg.hardBackoffDelay > 0
              /\ state.hardBackoffUntil <= now + cfg.hardBackoffDelay
        /\ \A t \in NextTimes, res \in QueryResults, ok \in Outcomes :
              LET out == StepOf(t, res, ok)
              IN /\ Called(out, "soft") =>
                       /\ Count(out.calls, "soft") = 1
                       /\ ~(state.softBackoffUntil # 0 /\ t < state.softBackoffUntil)
                 /\ Called(out, "hard") =>
                       /\ Count(out.calls, "hard") = 1
                       /\ ~(state.hardBackoffUntil # 0 /\ t < state.hardBackoffUntil)

\* a leader back in NotBreached while the soft backoff is pending, and a leader
\* in SoftThresholdActive while the hard backoff is pending: crossing values and
\* missing values under assume_breached at a time before the timestamp execute
\* nothing
CooldownSuppressionWitness ==
    /\ pc = "loop"
    /\ IsLeader
    /\ \/ /\ state.currentState = stateNotBreached
          /\ cfg.softThreshold.plugin
          /\ \E t \in NextTimes, res \in QueryResults, ok \in Outcomes :
               LET out == StepOf(t, res, ok)
               IN /\ state.softBackoffUntil # 0 /\ t < state.softBackoffUntil
                  /\ \/ out.evaluated /\ softCrossedOf(cfg, out.value)
                     \/ out.assumed
                  /\ out.calls = <<>>
       \/ /\ state.currentState = stateSoftThresholdActive
          /\ cfg.hardThreshold.plugin
          /\ hardTotal >= 1
          /\ \E t \in NextTimes, res \in QueryResults, ok \in Outcomes :
               LET out == StepOf(t, res, ok)
               IN /\ state.hardBackoffUntil # 0 /\ t < state.hardBackoffUntil
                  /\ out.evaluated /\ hardCrossedOf(cfg, out.value)
                  /\ softCrossedOf(cfg, out.value)
                  /\ out.calls = <<>>

\* C5: one call of processThresholdStateMachine gives the same state and the
\* same soft and hard start times whatever IsLeader() returns; when it returns
\* false no plugin is executed and no backoff timestamp changes.
LeadershipIndependence ==
    pc = "loop" =>
        \A t \in NextTimes, value \in Values, ok \in Outcomes :
            LET leader == processThresholdStateMachine(
                              state, cfg, value, t,
                              [soft |-> TRUE, hard |-> TRUE], ok)
                other == processThresholdStateMachine(
                             state, cfg, value, t,
                             [soft |-> FALSE, hard |-> FALSE], ok)
            IN /\ other.st.currentState = leader.st.currentState
               /\ other.st.softThresholdStartTime = leader.st.softThresholdStartTime
               /\ other.st.hardThresholdStartTime = leader.st.hardThresholdStartTime
               /\ other.calls = <<>>
               /\ other.st.softBackoffUntil = state.softBackoffUntil
               /\ other.st.hardBackoffUntil = state.hardBackoffUntil

\* a replica that is not the leader makes a transition on which the leader
\* executes a plugin and arms its backoff
LeadershipIndependenceWitness ==
    /\ pc = "loop"
    /\ ~IsLeader
    /\ election = "running"
    /\ \E t \in NextTimes, res \in QueryResults, ok \in Outcomes :
         LET out == StepOf(t, res, ok)
             leader == processThresholdStateMachine(
                           state, cfg, out.value, t,
                           [soft |-> TRUE, hard |-> TRUE], ok)
         IN /\ out.evaluated
            /\ out.st.currentState # state.currentState
            /\ out.calls = <<>>
            /\ leader.calls # <<>>
            /\ leader.st.softBackoffUntil # state.softBackoffUntil

\* C10: in HardThresholdActive a value that does not cross the soft threshold
\* moves the state to NotBreached, with both start times cleared and no
\* Execute, also when the value still crosses the hard threshold.
HardActiveToNotBreached ==
    pc = "loop" /\ state.currentState = stateHardThresholdActive =>
        \A t \in NextTimes, res \in QueryResults, ok \in Outcomes :
            LET out == StepOf(t, res, ok)
            IN out.evaluated /\ ~softCrossedOf(cfg, out.value) =>
                 /\ out.st.currentState = stateNotBreached
                 /\ out.st.softThresholdStartTime = 0
                 /\ out.st.hardThresholdStartTime = 0
                 /\ out.calls = <<>>

\* HardThresholdActive under less_than, on a value crossing the hard threshold
\* alone
HardActiveToNotBreachedWitness ==
    /\ pc = "loop"
    /\ state.currentState = stateHardThresholdActive
    /\ state.softThresholdStartTime # 0
    /\ state.hardThresholdStartTime # 0
    /\ \E t \in NextTimes, res \in QueryResults, ok \in Outcomes :
         LET out == StepOf(t, res, ok)
         IN /\ out.evaluated
            /\ ~softCrossedOf(cfg, out.value)
            /\ hardCrossedOf(cfg, out.value)
            /\ out.st.currentState = stateNotBreached

\* C7: once OnStoppedLeading has run the leadership fact is false and the
\* process has exited; from then on no tick happens, no plugin is executed
\* and the leadership fact stays false.
Fencing ==
    /\ [](election = "stopped" => pc = "exited" /\ ~leaderActive)
    /\ [][election = "stopped" =>
             /\ now' = now
             /\ state' = state
             /\ softTotal' = softTotal
             /\ hardTotal' = hardTotal
             /\ leaderActive' = FALSE]_vars

\* a replica that gained leadership, executed a plugin and then lost it
FencingWitness ==
    /\ election = "stopped"
    /\ pc = "exited"
    /\ startedLeading
    /\ softTotal >= 1
    /\ now < MaxTime

\* C8: with leader election disabled, or without the in-cluster configuration,
\* the namespace or the client, startLeaderElection stores true and starts no
\* election; with no election started IsLeader() is true in every later state
\* and no callback has run.
FailOpen ==
    /\ pc = "start" =>
          \A inClusterOK \in BOOLEAN, namespaceOK \in BOOLEAN, clientOK \in BOOLEAN :
              ~(cfg.LeaderElectionEnabled /\ inClusterOK /\ namespaceOK /\ clientOK) =>
                  leaderElectionStart(cfg, leaderActive, inClusterOK, namespaceOK,
                                      clientOK)
                      = [leaderActive |-> TRUE, election |-> "none"]
    /\ pc # "start" /\ ~cfg.LeaderElectionEnabled => election = "none"
    /\ pc # "start" /\ election = "none" =>
          /\ IsLeader
          /\ ~startedLeading
          /\ pc = "loop"

\* leader election enabled but not started: the replica executes a plugin
FailOpenWitness ==
    /\ pc = "loop"
    /\ cfg.LeaderElectionEnabled
    /\ election = "none"
    /\ IsLeader
    /\ softTotal >= 1
    /\ now >= 2

\* C4: on a leading replica whose Execute succeeds, the first tick after a
\* tier's backoff timestamp whose value still crosses that tier's threshold
\* executes the tier's plugin exactly once and sets the timestamp to the
\* tick's time plus the delay: the soft tier in SoftThresholdActive and in
\* HardThresholdActive, the hard tier in HardThresholdActive.
CooldownRefire ==
    pc = "loop" /\ IsLeader =>
        \A t \in NextTimes, res \in QueryResults, ok \in Outcomes :
            LET out == StepOf(t, res, ok)
            IN out.evaluated =>
                 /\ (/\ state.currentState \in {stateSoftThresholdActive,
                                                stateHardThresholdActive}
                     /\ state.softBackoffUntil # 0
                     /\ now <= state.softBackoffUntil
                     /\ state.softBackoffUntil < t
                     /\ softCrossedOf(cfg, out.value)
                     /\ ok.soft)
                       => /\ Count(out.calls, "soft") = 1
                          /\ out.st.softBackoffUntil = t + cfg.softBackoffDelay
                 /\ (/\ state.currentState = stateHardThresholdActive
                     /\ state.hardBackoffUntil # 0
                     /\ now <= state.hardBackoffUntil
                     /\ state.hardBackoffUntil < t
                     /\ hardCrossedOf(cfg, out.value)
                     /\ softCrossedOf(cfg, out.value)
                     /\ ok.hard)
                       => /\ Count(out.calls, "hard") = 1
                          /\ out.st.hardBackoffUntil = t + cfg.hardBackoffDelay

\* C9: in NotBreached a tick whose value does not cross the soft threshold
\* leaves softThresholdStartTime zero, and a tick leaves NotBreached only if
\* no value evaluated within the last softDuration was below the threshold.
NoPartialCredit ==
    pc = "loop" /\ state.currentState = stateNotBreached =>
        \A t \in NextTimes, res \in QueryResults, ok \in Outcomes :
            LET out == StepOf(t, res, ok)
            IN /\ out.evaluated /\ ~softCrossedOf(cfg, out.value) =>
                     /\ out.st.softThresholdStartTime = 0
                     /\ out.st.currentState = stateNotBreached
               /\ out.st.currentState # stateNotBreached =>
                     \/ lastUncrossed = 0
                     \/ lastUncrossed + cfg.softDuration < t

\* C11: with a hard threshold but no soft threshold configured, the state is
\* NotBreached in every reachable state, no start time or backoff is ever set
\* and no plugin is ever executed, whatever the values.
HardOnlyStaysNotBreached ==
    ~cfg.softThreshold.present =>
        /\ state = stateDataInit
        /\ softTotal = 0
        /\ hardTotal = 0

\* a leader with only a hard threshold and its plugin, after three and more
\* time units, the last sample crossing the hard threshold
HardOnlyWitness ==
    /\ pc = "loop"
    /\ IsLeader
    /\ ~cfg.softThreshold.present
    /\ cfg.hardThreshold.present
    /\ cfg.hardThreshold.plugin
    /\ hasLastValue
    /\ hardCrossedOf(cfg, lastValue)
    /\ now >= 3

\* C12: with no hard threshold configured the state is never
\* HardThresholdActive, the hard start time and backoff stay zero and the hard
\* plugin is never executed, on ordinary and on assume_breached ticks.
NoHardTierNoHardActive ==
    ~cfg.hardThreshold.present =>
        /\ state.currentState \in {stateNotBreached, stateSoftThresholdActive}
        /\ state.hardThresholdStartTime = 0
        /\ state.hardBackoffUntil = 0
        /\ hardTotal = 0

\* SoftThresholdActive with no hard threshold: the largest value and, under
\* assume_breached, a missing value both leave it SoftThresholdActive
NoHardTierWitness ==
    /\ pc = "loop"
    /\ IsLeader
    /\ ~cfg.hardThreshold.present
    /\ cfg.operator = thresholdOperatorGreaterThan
    /\ cfg.missingValueBehavior = missingValueBehaviorAssumeBreached
    /\ state.currentState = stateSoftThresholdActive
    /\ \E t \in NextTimes, ok \in Outcomes :
         /\ StepOf(t, [kind |-> "empty", value |-> 0], ok).assumed
         /\ StepOf(t, [kind |-> "empty", value |-> 0], ok).st.currentState
                = stateSoftThresholdActive
         /\ StepOf(t, [kind |-> "sample", value |-> 3], ok).st.currentState
                = stateSoftThresholdActive

\* C13: under assume_breached with no soft threshold configured, a tick
\* without a sample in NotBreached changes nothing in stateData and executes
\* no plugin; the state is NotBreached whenever such a tick happens.
AssumeBreachedWithoutSoftTier ==
    pc = "loop" /\ ~cfg.softThreshold.present
        /\ cfg.missingValueBehavior = missingValueBehaviorAssumeBreached =>
        /\ state.currentState = stateNotBreached
        /\ \A t \in NextTimes, ok \in Outcomes :
              LET out == StepOf(t, [kind |-> "empty", value |-> 0], ok)
              IN /\ out.st = state
                 /\ out.calls = <<>>

\* a leader with only a hard threshold under assume_breached that has seen no
\* sample for two and more time units, about to see none again
AssumeBreachedWithoutSoftTierWitness ==
    /\ pc = "loop"
    /\ IsLeader
    /\ ~cfg.softThreshold.present
    /\ cfg.hardThreshold.present
    /\ cfg.hardThreshold.plugin
    /\ cfg.missingValueBehavior = missingValueBehaviorAssumeBreached
    /\ ~hasLastValue
    /\ now >= 2
    /\ \E t \in NextTimes, ok \in Outcomes :
         StepOf(t, [kind |-> "empty", value |-> 0], ok).assumed

-----------------------------------------------------------------------------
(* the scenario of a sustained violation of both thresholds on a leader *)

\* both tiers with their plugins and no backoff delay
InitEscalation ==
    /\ Init
    /\ cfg.softThreshold.present /\ cfg.softThreshold.plugin
    /\ cfg.hardThreshold.present /\ cfg.hardThreshold.plugin
    /\ cfg.softBackoffDelay = 0
    /\ cfg.hardBackoffDelay = 0

\* every query returns a sample crossing both thresholds
EscalationResults ==
    {res \in QueryResults :
        /\ res.kind = "sample"
        /\ softCrossedOf(cfg, res.value)
        /\ hardCrossedOf(cfg, res.value)}

\* both plugins' Execute return nil
AllSucceed == {ok \in Outcomes : ok.soft /\ ok.hard}

EscalationTick == IsLeader /\ TickOn(EscalationResults, AllSucceed)

NextEscalation ==
    \/ startLeaderElection
    \/ OnStartedLeading
    \/ EscalationTick

SpecEscalation == InitEscalation /\ [][NextEscalation]_vars

\* C14: under a sustained violation of both thresholds (no backoff delays,
\* leader, Execute succeeding) the state only changes NotBreached ->
\* SoftThresholdActive and SoftThresholdActive -> HardThresholdActive; the soft
\* plugin has been executed once from SoftThresholdActive on and the hard
\* plugin once from HardThresholdActive on and never before, never both in
\* one tick; the hard start time is only set by a tick that starts in
\* SoftThresholdActive.
EscalatesOnce ==
    /\ [](pc = "loop" =>
            /\ state.currentState = stateNotBreached =>
                  softTotal = 0 /\ hardTotal = 0 /\ state.hardThresholdStartTime = 0
            /\ state.currentState = stateSoftThresholdActive =>
                  softTotal = 1 /\ hardTotal = 0
            /\ state.currentState = stateHardThresholdActive =>
                  softTotal = 1 /\ hardTotal = 1)
    /\ [][/\ state'.currentState # state.currentState =>
                \/ /\ state.currentState = stateNotBreached
                   /\ state'.currentState = stateSoftThresholdActive
                \/ /\ state.currentState = stateSoftThresholdActive
                   /\ state'.currentState = stateHardThresholdActive
          /\ ~(softTotal' > softTotal /\ hardTotal' > hardTotal)
          /\ state'.hardThresholdStartTime # state.hardThresholdStartTime =>
                /\ state.currentState = stateSoftThresholdActive
                /\ state'.hardThresholdStartTime = now'
                /\ state'.hardThresholdStartTime > state.softThresholdStartTime]_vars

\* HardThresholdActive reached with one Execute of each plugin
EscalatesOnceWitness ==
    /\ pc = "loop"
    /\ state.currentState = stateHardThresholdActive
    /\ softTotal = 1
    /\ hardTotal = 1
    /\ state.softThresholdStartTime # 0
    /\ state.hardThresholdStartTime > state.softThresholdStartTime
    /\ now > state.hardThresholdStartTime

-----------------------------------------------------------------------------
(* the scenario of a replica that never becomes the leader *)

\* both tiers, with or without plugins, under the lease protocol
NonLeaderConfigs ==
    {c \in AllConfigs :
        /\ <<c.softDuration, c.hardDuration>> \in DurationPairs
        /\ <<c.softBackoffDelay, c.hardBackoffDelay>> \in BackoffPairs
        /\ <<c.operator, c.missingValueBehavior>> \in ModePairs
        /\ c.softThreshold.present
        /\ c.hardThreshold.present
        /\ c.LeaderElectionEnabled}

InitNonLeader ==
    /\ cfg \in NonLeaderConfigs
    /\ pc = "start"
    /\ state = stateDataInit
    /\ now = 0
    /\ lastValue = 0
    /\ hasLastValue = FALSE
    /\ leaderActive = FALSE
    /\ election = "none"
    /\ startedLeading = FALSE
    /\ softTotal = 0
    /\ hardTotal = 0
    /\ lastUncrossed = 0
    /\ env = envOf(cfg)
    /\ PluginRegistry = requiredPluginsOf(env.config)

\* startLeaderElection reaches RunOrDie
ElectionStarted == startLeaderElection /\ election' = "running"

\* the ticker fires every polling interval (one time unit) and every query
\* returns a sample crossing both thresholds
NonLeaderTick ==
    /\ ~IsLeader
    /\ TickOn(EscalationResults, Outcomes)
    /\ now' = now + 1

NextNonLeader ==
    \/ ElectionStarted
    \/ NonLeaderTick

SpecNonLeader ==
    /\ InitNonLeader
    /\ [][NextNonLeader]_vars
    /\ WF_vars(ElectionStarted)
    /\ WF_vars(NonLeaderTick)

\* C15: a replica on which IsLeader() is false on every tick, with every
\* tick's value crossing both thresholds, eventually reaches
\* HardThresholdActive, and no plugin is ever executed.
NonLeaderReachesHardActive ==
    /\ <>(state.currentState = stateHardThresholdActive)
    /\ [](softTotal = 0 /\ hardTotal = 0)

\* HardThresholdActive on a replica that never led, both plugins configured
NonLeaderWitness ==
    /\ pc = "loop"
    /\ ~IsLeader
    /\ cfg.softThreshold.plugin
    /\ cfg.hardThreshold.plugin
    /\ state.currentState = stateHardThresholdActive
    /\ state.hardThresholdStartTime > state.softThresholdStartTime
    /\ softTotal = 0
    /\ hardTotal = 0

\* C16: a tick in which a tier's Execute returns an error leaves that tier's
\* backoff timestamp as it was before the tick, and makes the same state
\* change, sets the same start times and calls the same plugins as the tick
\* in which every Execute succeeds.
FailureLeavesBackoff ==
    pc = "loop" =>
        \A t \in NextTimes, res \in QueryResults, ok \in Outcomes :
            LET out == StepOf(t, res, ok)
                ref == StepOf(t, res, [soft |-> TRUE, hard |-> TRUE])
            IN /\ Called(out, "soft") /\ ~ok.soft =>
                     out.st.softBackoffUntil = state.softBackoffUntil
               /\ Called(out, "hard") /\ ~ok.hard =>
                     out.st.hardBackoffUntil = state.hardBackoffUntil
               /\ out.st.currentState = ref.st.currentState
               /\ out.st.softThresholdStartTime = ref.st.softThresholdStartTime
               /\ out.st.hardThresholdStartTime = ref.st.hardThresholdStartTime
               /\ out.calls = ref.calls

\* a failing soft Execute on NotBreached -> SoftThresholdActive with an older
\* backoff timestamp in place, and a failing hard Execute on
\* SoftThresholdActive -> HardThresholdActive
FailureLeavesBackoffWitness ==
    /\ pc = "loop"
    /\ IsLeader
    /\ cfg.softBackoffDelay > 0
    /\ cfg.hardBackoffDelay > 0
    /\ \/ /\ state.currentState = stateNotBreached
          /\ state.softBackoffUntil # 0
          /\ \E t \in NextTimes, res \in QueryResults, ok \in Outcomes :
               LET out == StepOf(t, res, ok)
               IN /\ ~ok.soft
                  /\ Called(out, "soft")
                  /\ out.st.currentState = stateSoftThresholdActive
                  /\ out.st.softBackoffUntil = state.softBackoffUntil
       \/ /\ state.currentState = stateSoftThresholdActive
          /\ \E t \in NextTimes, res \in QueryResults, ok \in Outcomes :
               LET out == StepOf(t, res, ok)
               IN /\ ~ok.hard
                  /\ Called(out, "hard")
                  /\ out.st.currentState = stateHardThresholdActive
                  /\ out.st.hardBackoffUntil = 0

\* the samples that keep a tier's threshold crossed (the hard tier needs the
\* soft threshold crossed as well)
CrossingResults(tier) ==
    {res \in QueryResults :
        /\ res.kind = "sample"
        /\ softCrossedOf(cfg, res.value)
        /\ tier = "hard" => hardCrossedOf(cfg, res.value)}

\* on a leader whose Execute succeeds, from stateData st at time t: there are
\* later ticks, and whatever the crossing samples and tick times, one of the
\* later ticks executes the tier's plugin
RECURSIVE RetriedLater(_, _, _)
RetriedLater(st, t, tier) ==
    LET times == {t + d : d \in Steps} \cap (1..MaxTime) IN
    /\ times # {}
    /\ \A t2 \in times, res \in CrossingResults(tier) :
          LET out == loopBody(st, cfg, res.value, TRUE, res, t2,
                              [soft |-> TRUE, hard |-> TRUE],
                              [soft |-> TRUE, hard |-> TRUE])
          IN Called(out, tier) \/ RetriedLater(out.st, t2, tier)

\* C17: on a leader, when the Execute of a tier's plugin fails on the tick of
\* that tier's transition and the following ticks keep the tier's threshold
\* crossed, one of the following ticks executes the tier's plugin again.
RetryAfterFailure ==
    pc = "loop" /\ IsLeader =>
        \A t \in NextTimes, res \in QueryResults, ok \in Outcomes :
            LET out == StepOf(t, res, ok)
            IN out.evaluated /\ t < MaxTime =>
                 /\ (/\ state.currentState = stateNotBreached
                     /\ out.st.currentState = stateSoftThresholdActive
                     /\ Called(out, "soft")
                     /\ ~ok.soft)
                       => RetriedLater(out.st, t, "soft")
                 /\ (/\ state.currentState = stateSoftThresholdActive
                     /\ out.st.currentState = stateHardThresholdActive
                     /\ Called(out, "hard")
                     /\ ~ok.hard)
                       => RetriedLater(out.st, t, "hard")

\* C18: under zero a tick without a sample changes stateData and executes
\* plugins exactly as a tick with sample 0, under last_value with a sample
\* seen before exactly as a tick with the last sample; the substituted value
\* is not remembered as the last value; under last_value with no sample seen
\* yet the tick changes nothing and executes nothing.
DegradedSubstitution ==
    pc = "loop" =>
        \A t \in NextTimes, ok \in Outcomes :
            LET missing == StepOf(t, [kind |-> "empty", value |-> 0], ok)
                zero == StepOf(t, [kind |-> "sample", value |-> 0], ok)
                last == StepOf(t, [kind |-> "sample", value |-> lastValue], ok)
            IN /\ cfg.missingValueBehavior = missingValueBehaviorZero =>
                     /\ missing.st = zero.st
                     /\ missing.calls = zero.calls
               /\ cfg.missingValueBehavior = missingValueBehaviorLastValue
                    /\ hasLastValue =>
                     /\ missing.st = last.st
                     /\ missing.calls = last.calls
               /\ cfg.missingValueBehavior = missingValueBehaviorLastValue
                    /\ ~hasLastValue =>
                     /\ missing.st = state
                     /\ missing.calls = <<>>
               /\ cfg.missingValueBehavior # missingValueBehaviorAssumeBreached =>
                     /\ missing.lastValue = lastValue
                     /\ missing.hasLastValue = hasLastValue

\* last_value: a missing sample makes the transition and the Execute of the
\* remembered crossing sample
DegradedSubstitutionWitness ==
    /\ pc = "loop"
    /\ IsLeader
    /\ cfg.missingValueBehavior = missingValueBehaviorLastValue
    /\ hasLastValue
    /\ \E t \in NextTimes, ok \in Outcomes :
         LET missing == StepOf(t, [kind |-> "empty", value |-> 0], ok)
         IN /\ missing.evaluated
            /\ missing.value = lastValue
            /\ missing.st.currentState # state.currentState
            /\ missing.calls # <<>>

\* C19: a tick whose query fails or returns a result that is no vector leaves
\* stateData, lastValue and hasLastValue unchanged and executes no plugin.
FailedQuerySkipsTick ==
    pc = "loop" =>
        \A t \in NextTimes, ok \in Outcomes,
           res \in {r \in QueryResults : r.kind \in {"error", "other_type"}} :
            LET out == StepOf(t, res, ok)
            IN /\ out.st = state
               /\ out.calls = <<>>
               /\ out.lastValue = lastValue
               /\ out.hasLastValue = hasLastValue
               /\ ~out.evaluated
               /\ ~out.assumed

\* a leader in SoftThresholdActive with a sample remembered: a sample would
\* change the state, the failed query does not
FailedQuerySkipsTickWitness ==
    /\ pc = "loop"
    /\ IsLeader
    /\ state.currentState = stateSoftThresholdActive
    /\ hasLastValue
    /\ \E t \in NextTimes, ok \in Outcomes, v \in Values :
         /\ StepOf(t, [kind |-> "sample", value |-> v], ok).st # state
         /\ StepOf(t, [kind |-> "empty", value |-> 0], ok).st # state
         /\ StepOf(t, [kind |-> "error", value |-> 0], ok).st = state

-----------------------------------------------------------------------------
(* Claims on the crossing test and on the transitions out of the active states *)

\* C22: isThresholdCrossed(op, v, t) is true exactly when op is greater_than
\* and v > t, or op is less_than and v < t; a value equal to the threshold is
\* not crossed for either operator, any other operator gives false, and the
\* tiers of the running configuration are tested this way.
CrossingTest ==
    /\ \A op \in OperatorStrings, v \in Values, t \in Values :
          /\ isThresholdCrossed(op, v, t) <=>
                \/ op = thresholdOperatorGreaterThan /\ v > t
                \/ op = thresholdOperatorLessThan /\ v < t
          /\ ~isThresholdCrossed(op, t, t)
    /\ \A v \in Values :
          /\ softCrossedOf(cfg, v) <=>
                /\ cfg.softThreshold.present
                /\ \/ cfg.operator = thresholdOperatorGreaterThan
                      /\ v > cfg.softThreshold.value
                   \/ cfg.operator = thresholdOperatorLessThan
                      /\ v < cfg.softThreshold.value
          /\ hardCrossedOf(cfg, v) <=>
                /\ cfg.hardThreshold.present
                /\ \/ cfg.operator = thresholdOperatorGreaterThan
                      /\ v > cfg.hardThreshold.value
                   \/ cfg.operator = thresholdOperatorLessThan
                      /\ v < cfg.hardThreshold.value

\* a tick evaluated a sample equal to the soft threshold and found it not
\* crossed
CrossingTestWitness ==
    /\ pc = "loop"
    /\ cfg.softThreshold.present
    /\ cfg.missingValueBehavior = missingValueBehaviorLastValue
    /\ hasLastValue
    /\ lastValue = cfg.softThreshold.value
    /\ lastUncrossed = now
    /\ now > 0
    /\ state.currentState = stateNotBreached

\* C24 as stated: from HardThresholdActive a tick whose value does not cross
\* the hard threshold moves to NotBreached and clears both timers, also when
\* the value still crosses the soft threshold.
HardClearedReturnsToNotBreached ==
    pc = "loop" /\ state.currentState = stateHardThresholdActive =>
        \A t \in NextTimes, res \in QueryResults, ok \in Outcomes :
            LET out == StepOf(t, res, ok)
            IN out.evaluated /\ ~hardCrossedOf(cfg, out.value) =>
                 /\ out.st.currentState = stateNotBreached
                 /\ out.st.softThresholdStartTime = 0
                 /\ out.st.hardThresholdStartTime = 0

\* C24 amended: from HardThresholdActive a tick whose value does not cross the
\* hard threshold returns to NotBreached with both timers cleared exactly when
\* the value does not cross the soft threshold either; when the value still
\* crosses the soft threshold the tick leaves stateData as it is, stays in
\* HardThresholdActive and executes nothing.
HardClearedSoftCrossedStays ==
    pc = "loop" /\ state.currentState = stateHardThresholdActive =>
        \A t \in NextTimes, res \in QueryResults, ok \in Outcomes :
            LET out == StepOf(t, res, ok)
            IN out.evaluated /\ ~hardCrossedOf(cfg, out.value) =>
                 IF softCrossedOf(cfg, out.value)
                 THEN /\ out.st = state
                      /\ out.calls = <<>>
                 ELSE /\ out.st.currentState = stateNotBreached
                      /\ out.st.softThresholdStartTime = 0
                      /\ out.st.hardThresholdStartTime = 0
                      /\ out.calls = <<>>

\* HardThresholdActive with an expired hard backoff, on a value between the
\* two thresholds
HardClearedSoftCrossedWitness ==
    /\ pc = "loop"
    /\ state.currentState = stateHardThresholdActive
    /\ IsLeader
    /\ cfg.hardThreshold.plugin
    /\ \E t \in NextTimes, res \in QueryResults, ok \in Outcomes :
         LET out == StepOf(t, res, ok)
         IN /\ res.kind = "sample"
            /\ hardBackoffExpired(state, t)
            /\ softCrossedOf(cfg, out.value)
            /\ ~hardCrossedOf(cfg, out.value)
            /\ out.st.currentState = stateHardThresholdActive

\* C25: the SoftThresholdActive -> NotBreached transition clears both timers,
\* so whenever the state is NotBreached between two ticks the hard timer is
\* zero.
SoftActiveToNotBreachedClearsTimers ==
    pc = "loop" =>
        /\ state.currentState = stateNotBreached =>
              state.hardThresholdStartTime = 0
        /\ state.currentState = stateSoftThresholdActive =>
              \A t \in NextTimes, res \in QueryResults, ok \in Outcomes :
                  LET out == StepOf(t, res, ok)
                  IN out.st.currentState = stateNotBreached =>
                       /\ out.st.softThresholdStartTime = 0
                       /\ out.st.hardThresholdStartTime = 0

\* the times the tick after a tick at time t can happen at
LaterTimes(t) == {t + d : d \in Steps}

\* C26: the SoftThresholdActive -> HardThresholdActive transition of an
\* evaluated tick needs the hard threshold crossed for the hard duration
\* within the current stay in SoftThresholdActive: from NotBreached, when a
\* tick enters SoftThresholdActive and a following evaluated tick enters
\* HardThresholdActive, at least the hard duration lies between the two.
HardNoPartialCredit ==
    pc = "loop" /\ state.currentState = stateNotBreached =>
        \A t1 \in LaterTimes(now), res1 \in QueryResults, ok1 \in Outcomes :
            LET lead == [soft |-> IsLeader, hard |-> IsLeader]
                out1 == loopBody(state, cfg, lastValue, hasLastValue, res1, t1,
                                 lead, ok1)
            IN out1.st.currentState = stateSoftThresholdActive =>
                 \A t2 \in LaterTimes(t1), res2 \in QueryResults, ok2 \in Outcomes :
                     LET out2 == loopBody(out1.st, cfg, out1.lastValue,
                                          out1.hasLastValue, res2, t2, lead, ok2)
                     IN /\ out2.evaluated
                        /\ out2.st.currentState = stateHardThresholdActive
                        => t2 - t1 >= cfg.hardDuration

-----------------------------------------------------------------------------
(* Claims on the ticks without a sample under assume_breached *)

\* C27: no tick, with or without a sample, starts in NotBreached and ends in
\* HardThresholdActive, and no tick that starts in NotBreached executes both
\* the soft and the hard plugin.
OneStepPerTick ==
    pc = "loop" /\ state.currentState = stateNotBreached =>
        \A t \in NextTimes, res \in QueryResults, ok \in Outcomes :
            LET out == StepOf(t, res, ok)
            IN /\ out.st.currentState # stateHardThresholdActive
               /\ ~(Called(out, "soft") /\ Called(out, "hard"))

\* C28: under assume_breached a tick without a sample executes a tier's plugin
\* only when that tier's timer has run for the tier's duration, and in
\* NotBreached with no soft timer running it only starts the soft timer: the
\* state stays NotBreached and no plugin is executed.
AssumeBreachedOnlyWhenDue ==
    pc = "loop" =>
        \A t \in NextTimes, res \in QueryResults, ok \in Outcomes :
            LET out == StepOf(t, res, ok)
            IN out.assumed =>
                 /\ Called(out, "soft") =>
                       /\ state.softThresholdStartTime # 0
                       /\ softDurationElapsed(state, cfg, t)
                 /\ Called(out, "hard") =>
                       /\ state.hardThresholdStartTime # 0
                       /\ hardDurationElapsed(state, cfg, t)
                 /\ (/\ state.currentState = stateNotBreached
                     /\ state.softThresholdStartTime = 0)
                       => /\ out.st.currentState = stateNotBreached
                          /\ out.calls = <<>>

-----------------------------------------------------------------------------
(* Claims on how often a plugin is executed in an episode *)

\* C29: when the soft threshold stays crossed, this replica is the leader
\* from now on and the soft plugin's Execute succeeds, the soft plugin is
\* executed on one of the following ticks, also on a replica that entered
\* SoftThresholdActive before it became the leader and has not executed the
\* soft plugin yet.
LeaderEventuallyExecutes ==
    (/\ pc = "loop"
     /\ IsLeader
     /\ cfg.softThreshold.present
     /\ cfg.softThreshold.plugin
     /\ state.currentState = stateSoftThresholdActive
     /\ softTotal = 0
     /\ now < MaxTime)
        => RetriedLater(state, now, "soft")

\* C30: with a tier's backoff delay 0 that tier's plugin is executed at most
\* once between leaving NotBreached and the next return to NotBreached,
\* whatever the samples, the missing samples, the leadership and the Execute
\* outcomes: the backoff timestamp stays zero; the soft plugin is executed
\* once, and only by a tick that leaves NotBreached; the hard plugin is
\* executed once, and only by a tick that enters HardThresholdActive, which
\* is left only for NotBreached.
AtMostOncePerEpisode ==
    pc = "loop" =>
        /\ cfg.softBackoffDelay = 0 =>
              /\ state.softBackoffUntil = 0
              /\ \A t \in NextTimes, res \in QueryResults, ok \in Outcomes :
                    LET out == StepOf(t, res, ok)
                    IN Called(out, "soft") =>
                         /\ state.currentState = stateNotBreached
                         /\ out.st.currentState # stateNotBreached
                         /\ Count(out.calls, "soft") = 1
        /\ cfg.hardBackoffDelay = 0 =>
              /\ state.hardBackoffUntil = 0
              /\ \A t \in NextTimes, res \in QueryResults, ok \in Outcomes :
                    LET out == StepOf(t, res, ok)
                    IN /\ Called(out, "hard") =>
                            /\ state.currentState # stateHardThresholdActive
                            /\ out.st.currentState = stateHardThresholdActive
                            /\ Count(out.calls, "hard") = 1
                       /\ state.currentState = stateHardThresholdActive =>
                            out.st.currentState \in
                                {stateHardThresholdActive, stateNotBreached}

\* a leader that has executed both plugins of the episode with backoff delays
\* 0, in HardThresholdActive on a tick that keeps both thresholds crossed
AtMostOncePerEpisodeWitness ==
    /\ pc = "loop"
    /\ IsLeader
    /\ cfg.softBackoffDelay = 0
    /\ cfg.hardBackoffDelay = 0
    /\ cfg.softThreshold.plugin
    /\ cfg.hardThreshold.plugin
    /\ state.currentState = stateHardThresholdActive
    /\ softTotal = 1
    /\ hardTotal = 1
    /\ \E t \in NextTimes, res \in QueryResults, ok \in Outcomes :
         LET out == StepOf(t, res, ok)
         IN /\ res.kind = "sample"
            /\ softCrossedOf(cfg, res.value)
            /\ hardCrossedOf(cfg, res.value)
            /\ out.st.currentState = stateHardThresholdActive
            /\ out.calls = <<>>

-----------------------------------------------------------------------------
(* Claims on the startup of the process *)

\* C21: the process exits before the first tick whenever the metric name is
\* empty, the threshold operator is not greater_than or less_than, the
\* missing value behaviour is not one of the three modes, no tier is
\* configured, or a configured tier names a plugin that is not in the
\* registry.
StartupErrorsAreFatal ==
    pc # "configure" =>
        LET config == env.config IN
        (\/ config.MetricName = ""
         \/ config.ThresholdOperator \notin
                {thresholdOperatorGreaterThan, thresholdOperatorLessThan}
         \/ config.MissingValueBehavior \notin
                {missingValueBehaviorLastValue, missingValueBehaviorZero,
                 missingValueBehaviorAssumeBreached}
         \/ ~config.Soft.present /\ ~config.Hard.present
         \/ \E tier \in {config.Soft, config.Hard} :
                tier.present /\ tier.Plugin # "" /\ tier.Plugin \notin PluginRegistry)
            => pc = "exited"

\* the plugins that the .so files of the directory hold
PluginsIn(dir) ==
    {e \in {dir.entries[i] : i \in DOMAIN dir.entries} : e.kind = "plugin"}

\* C23: LoadRequiredPlugins returns an error exactly when the directory cannot
\* be read, ValidateConfig of a required plugin fails or a required name is
\* not loaded; when it returns nil every required name is in PluginRegistry;
\* it registers no name outside the required set; with an empty required set
\* and a readable directory it returns nil and registers nothing.
LoadRequiredPluginsContract ==
    pc \in {"load_error", "load_nil"} =>
        LET required == requiredPluginsOf(env.config)
            validationFails ==
                \E e \in PluginsIn(env.dir) : e.name \in required /\ ~e.valid
            notLoaded ==
                \E name \in required :
                    \A e \in PluginsIn(env.dir) : e.name # name
        IN /\ pc = "load_error" <=>
                 (~env.dir.readable \/ validationFails \/ notLoaded)
           /\ pc = "load_nil" => required \subseteq PluginRegistry
           /\ PluginRegistry \subseteq required
           /\ required = {} /\ env.dir.readable =>
                 pc = "load_nil" /\ PluginRegistry = {}

\* LoadRequiredPlugins returned nil on a directory that holds the required
\* plugin and a plugin that is not required
LoadRequiredPluginsWitness ==
    /\ pc = "load_nil"
    /\ Cardinality(requiredPluginsOf(env.config)) = 1
    /\ PluginRegistry = requiredPluginsOf(env.config)
    /\ \E e \in PluginsIn(env.dir) : e.name \notin requiredPluginsOf(env.config)

-----------------------------------------------------------------------------
(* Claims on leadership and on the order of the Execute calls *)

\* the number of ticks two replicas are followed for
Lookahead == 3

\* two replicas on the same ticks and query results for n more ticks, one with
\* IsLeader() true and Execute returning nil, one with IsLeader() false: after
\* every tick both are in the same state of the state machine
RECURSIVE SamePhaseAlong(_, _, _, _, _, _)
SamePhaseAlong(leaderSt, followerSt, lv, hlv, t, n) ==
    IF n = 0
    THEN TRUE
    ELSE \A t2 \in LaterTimes(t), res \in QueryResults :
            LET l == loopBody(leaderSt, cfg, lv, hlv, res, t2,
                              [soft |-> TRUE, hard |-> TRUE],
                              [soft |-> TRUE, hard |-> TRUE])
                f == loopBody(followerSt, cfg, lv, hlv, res, t2,
                              [soft |-> FALSE, hard |-> FALSE],
                              [soft |-> TRUE, hard |-> TRUE])
            IN /\ l.st.currentState = f.st.currentState
               /\ SamePhaseAlong(l.st, f.st, l.lastValue, l.hasLastValue, t2, n - 1)

\* C31: two replicas with the same configuration that process the same ticks
\* and samples from the start of the loop, one always the leader with
\* succeeding plugins and one never the leader, are in the same state of the
\* state machine after every tick.
PhaseIndependentOfLeadership ==
    pc = "loop" /\ now = 0 =>
        SamePhaseAlong(state, state, lastValue, hasLastValue, now, Lookahead)

\* C32: a replica that has acquired the lease and has not lost it has
\* leaderActive true once the callbacks delivered so far have run, in whatever
\* order OnStartedLeading and OnNewLeader are delivered.
LeaseHolderIsLeader ==
    pc = "loop" /\ election = "running" /\ startedLeading => leaderActive

\* C33: with the election running, until OnStartedLeading has run the
\* leadership fact is false, no plugin has been executed and no tick executes
\* one, whatever transitions the state machine performs.
NoActionBeforeLease ==
    election = "running" /\ ~startedLeading =>
        /\ ~leaderActive
        /\ softTotal = 0
        /\ hardTotal = 0
        /\ pc = "loop" =>
              \A t \in NextTimes, res \in QueryResults, ok \in Outcomes :
                  StepOf(t, res, ok).calls = <<>>

\* a replica without the lease that has gone through both transitions, with
\* both plugins configured
NoActionBeforeLeaseWitness ==
    /\ pc = "loop"
    /\ election = "running"
    /\ ~startedLeading
    /\ cfg.softThreshold.plugin
    /\ cfg.hardThreshold.plugin
    /\ state.currentState = stateHardThresholdActive
    /\ softTotal = 0
    /\ hardTotal = 0

\* C34: in one tick each tier's plugin is executed at most once, whether the
\* Execute fails or succeeds, on a tick with a value as well as on an
\* assume_breached tick.
AtMostOncePerTick ==
    pc = "loop" =>
        \A t \in NextTimes, res \in QueryResults, ok \in Outcomes :
            LET out == StepOf(t, res, ok)
            IN /\ Count(out.calls, "soft") =< 1
               /\ Count(out.calls, "hard") =< 1
               /\ Len(out.calls) =< 2

\* a tick that executes both plugins, the hard one failing, and an
\* assume_breached tick that executes a failing plugin
AtMostOncePerTickWitness ==
    /\ pc = "loop"
    /\ IsLeader
    /\ \E t \in NextTimes, res \in QueryResults, ok \in Outcomes :
         LET out == StepOf(t, res, ok)
         IN /\ out.evaluated
            /\ ~ok.hard
            /\ Called(out, "soft")
            /\ Called(out, "hard")
    /\ \E t \in NextTimes, res \in QueryResults, ok \in Outcomes :
         LET out == StepOf(t, res, ok)
         IN /\ out.assumed
            /\ ~ok.hard
            /\ Called(out, "hard")

-----------------------------------------------------------------------------
(* Claims on the timers and on the order of the tiers within a tick *)

\* C35: in NotBreached with no soft timer running, a tick whose value crosses
\* the soft threshold starts the soft timer at the time of the tick, also
\* while the soft backoff is pending.
TimerStartsDuringCooldown ==
    (/\ pc = "loop"
     /\ state.currentState = stateNotBreached
     /\ state.softThresholdStartTime = 0)
        => \A t \in NextTimes, res \in QueryResults, ok \in Outcomes :
              LET out == StepOf(t, res, ok)
              IN out.evaluated /\ softCrossedOf(cfg, out.value) =>
                   out.st.softThresholdStartTime = t

\* C36: on a leader in SoftThresholdActive, a tick whose value still crosses
\* the soft threshold after the soft backoff has expired executes the soft
\* plugin, whatever the hard tier does on that tick, also when the hard
\* threshold is crossed and the hard backoff is pending.
SoftReexecutionIndependentOfHard ==
    (/\ pc = "loop"
     /\ IsLeader
     /\ cfg.softThreshold.plugin
     /\ state.currentState = stateSoftThresholdActive)
        => \A t \in NextTimes, res \in QueryResults, ok \in Outcomes :
              LET out == StepOf(t, res, ok)
              IN (/\ out.evaluated
                  /\ softCrossedOf(cfg, out.value)
                  /\ softBackoffExpired(state, t))
                    => Called(out, "soft")

TimerTickNeverTransitions ==
    pc = "loop" =>
        \A t \in NextTimes, res \in QueryResults, ok \in Outcomes :
            LET out == StepOf(t, res, ok)
            IN out.evaluated =>
                 /\ (/\ state.currentState = stateNotBreached
                     /\ state.softThresholdStartTime = 0
                     /\ softCrossedOf(cfg, out.value))
                       => /\ out.st.currentState = stateNotBreached
                          /\ out.st.softThresholdStartTime =
                                IF state.softBackoffUntil # 0 /\ t < state.softBackoffUntil
                                THEN 0 ELSE t
                          /\ out.calls = <<>>
                 /\ (/\ state.currentState = stateSoftThresholdActive
                     /\ state.hardThresholdStartTime = 0
                     /\ softCrossedOf(cfg, out.value)
                     /\ hardCrossedOf(cfg, out.value))
                       => /\ out.st.currentState = stateSoftThresholdActive
                          /\ out.st.hardThresholdStartTime =
                                IF state.hardBackoffUntil # 0 /\ t < state.hardBackoffUntil
                                THEN 0 ELSE t
                          /\ ~Called(out, "hard")

\* durations 0 on a leader in SoftThresholdActive with no hard timer: the tick
\* crossing the hard threshold starts the hard timer and stays
TimerTickNeverTransitionsWitness ==
    /\ pc = "loop"
    /\ IsLeader
    /\ cfg.softDuration = 0
    /\ cfg.hardDuration = 0
    /\ cfg.hardThreshold.plugin
    /\ state.currentState = stateSoftThresholdActive
    /\ state.hardThresholdStartTime = 0
    /\ \E t \in NextTimes, res \in QueryResults, ok \in Outcomes :
         LET out == StepOf(t, res, ok)
         IN /\ out.evaluated
            /\ hardCrossedOf(cfg, out.value)
            /\ out.st.hardThresholdStartTime = t
            /\ out.st.currentState = stateSoftThresholdActive

-----------------------------------------------------------------------------
(* LoadConfig: the migration of the legacy flat threshold settings *)

\* a nil *ThresholdSection
NoSection ==
    [present |-> FALSE, Threshold |-> 0, Plugin |-> "", Duration |-> 0,
     BackoffDelay |-> 0]

\* the [soft] / [hard] section as unmarshalled: nil or a section
Sections(triggers, plugins) ==
    {NoSection} \cup [present : {TRUE}, Threshold : triggers, Plugin : {""} \cup plugins,
                      Duration : {0, 2}, BackoffDelay : {0, 1}]

\* a *float64 as unmarshalled: nil or a value
NoFloat == [set |-> FALSE, value |-> 0]

Floats(triggers) == {NoFloat} \cup [set : {TRUE}, value : triggers]

\* the threshold fields of Config after v.Unmarshal, nested and legacy flat
UnmarshalledConfigs ==
    [Soft : Sections(SoftTriggers, {"file_action"}),
     Hard : Sections(HardTriggers, {"log_action"}),
     SoftThreshold : Floats(SoftTriggers),
     HardThreshold : Floats(HardTriggers),
     SoftThresholdPlugin : {"", "file_action"},
     HardThresholdPlugin : {"", "log_action"},
     ThresholdDuration : {0, 2},
     BackoffDelay : {0, 1}]

\* "if new section is not set but old fields are, migrate them"
migrateSection(section, legacyThreshold, legacyPlugin, duration, backoff) ==
    IF /\ ~section.present
       /\ (legacyThreshold.set \/ legacyPlugin # "" \/ duration > 0 \/ backoff > 0)
    THEN [present |-> TRUE,
          Threshold |-> IF legacyThreshold.set THEN legacyThreshold.value ELSE 0,
          Plugin |-> legacyPlugin,
          Duration |-> duration,
          BackoffDelay |-> backoff]
    ELSE section

\* LoadConfig after v.Unmarshal: both migrations, then the sync back to the
\* legacy fields
migrateThresholds(config) ==
    LET soft == migrateSection(config.Soft, config.SoftThreshold,
                               config.SoftThresholdPlugin, config.ThresholdDuration,
                               config.BackoffDelay)
        hard == migrateSection(config.Hard, config.HardThreshold,
                               config.HardThresholdPlugin, config.ThresholdDuration,
                               config.BackoffDelay)
    IN [Soft |-> soft,
        Hard |-> hard,
        SoftThreshold |->
            IF soft.present /\ ~config.SoftThreshold.set
            THEN [set |-> TRUE, value |-> soft.Threshold]
            ELSE config.SoftThreshold,
        HardThreshold |->
            IF hard.present /\ ~config.HardThreshold.set
            THEN [set |-> TRUE, value |-> hard.Threshold]
            ELSE config.HardThreshold,
        SoftThresholdPlugin |->
            IF soft.present /\ config.SoftThresholdPlugin = ""
            THEN soft.Plugin ELSE config.SoftThresholdPlugin,
        HardThresholdPlugin |->
            IF hard.present /\ config.HardThresholdPlugin = ""
            THEN hard.Plugin ELSE config.HardThresholdPlugin,
        ThresholdDuration |->
            IF soft.present /\ config.ThresholdDuration = 0
            THEN soft.Duration ELSE config.ThresholdDuration,
        BackoffDelay |->
            IF soft.present /\ config.BackoffDelay = 0
            THEN soft.BackoffDelay ELSE config.BackoffDelay]

\* main before LoadConfig returns: env holds what v.Unmarshal produced and, as
\* config, the Config that LoadConfig hands to main
InitLoadConfig ==
    /\ \E u \in UnmarshalledConfigs :
          env = [unmarshalled |-> u, config |-> u,
                 dir |-> [readable |-> TRUE, entries |-> <<>>]]
    /\ PluginRegistry = {}
    /\ cfg = nilThresholdCfg
    /\ pc = "main"
    /\ state = stateDataInit
    /\ now = 0
    /\ lastValue = 0
    /\ hasLastValue = FALSE
    /\ leaderActive = FALSE
    /\ election = "none"
    /\ startedLeading = FALSE
    /\ softTotal = 0
    /\ hardTotal = 0
    /\ lastUncrossed = 0

LoadConfig ==
    /\ pc = "main"
    /\ env' = [env EXCEPT !.config = migrateThresholds(env.unmarshalled)]
    /\ pc' = "configure"
    /\ UNCHANGED <<cfg, state, now, lastValue, hasLastValue, leaderActive,
                   election, startedLeading, softTotal, hardTotal, lastUncrossed,
                   PluginRegistry>>

NextLoadConfig == LoadConfig

SpecLoadConfig == InitLoadConfig /\ [][NextLoadConfig]_vars

\* C40: LoadConfig leaves a section non-nil only when the user supplied that
\* tier's own threshold or plugin, nested or legacy flat; a legacy flat
\* configuration with only soft_threshold and threshold_duration or
\* backoff_delay gives Hard = nil.
AbsentTiersStayAbsent ==
    pc = "configure" =>
        LET u == env.unmarshalled
            config == env.config
        IN /\ config.Soft.present =>
                 u.Soft.present \/ u.SoftThreshold.set \/ u.SoftThresholdPlugin # ""
           /\ config.Hard.present =>
                 u.Hard.present \/ u.HardThreshold.set \/ u.HardThresholdPlugin # ""
           /\ (/\ ~u.Soft.present /\ ~u.Hard.present
               /\ u.SoftThreshold.set
               /\ ~u.HardThreshold.set /\ u.HardThresholdPlugin = "")
                 => ~config.Hard.present
====
